---- MODULE Spec2Model ----
(***************************************************************************)
(* Model of dashboard-fusion's panel merge (src/fusion.go).                *)
(*                                                                         *)
(* A Go Panel is a map[string]json.RawMessage, i.e. a REFERENCE: two       *)
(* slice slots may hold the same map, and a write through one is seen      *)
(* through the other.  The model therefore keeps a heap (address -> panel  *)
(* fields) and lets every slice hold addresses.                            *)
(*                                                                         *)
(* Two specifications:                                                     *)
(*   Spec       one call of MergePanelsByGroup(ps1, ps2, top)              *)
(*   SpecMerge  one call of MergePanels(ps1, ps2)                          *)
(***************************************************************************)
EXTENDS Integers, Sequences, FiniteSets, TLC

VARIABLES
    heap,      \* address -> panel (the Go maps)
    heap0,     \* the heap as the caller passed it (never written)
    ps1, ps2,  \* the two argument slices (sequences of addresses)
    top,       \* the 'top' flag
    pc,        \* position in the function
    groupsPs1, rowsPs1, groupsPs2, rowsPs2,   \* results of groupByRow
    mergedGroups,
    tmp1, tmp2, seen,
    res,       \* the result slice
    rest,      \* MergePanels: the part of ps2 not yet consumed
    maxY       \* MergePanels: the running maxY

vars == <<heap, heap0, ps1, ps2, top, pc, groupsPs1, rowsPs1, groupsPs2,
          rowsPs2, mergedGroups, tmp1, tmp2, seen, res, rest, maxY>>

(***************************************************************************)
(* Bounds                                                                  *)
(***************************************************************************)
\* Spec: Len(ps1) + Len(ps2) <= MaxTotal
MaxTotal == 4
\* SpecMerge: Len(ps1) <= MaxMerge and Len(ps2) <= MaxMerge
MaxMerge == 3

(***************************************************************************)
(* json.RawMessage values.  k is the shape of the encoded value:           *)
(*   "absent"  the key is not in the map (a lookup yields nil)             *)
(*   "str"     a JSON string, s its text                                   *)
(*   "num"     a JSON number n                                             *)
(*   "null"    the JSON literal null                                       *)
(* bytes.Equal on two raw values is equality of these records.  A key set  *)
(* to a nil RawMessage is kept as "absent": every read in fusion.go is a   *)
(* lookup, and a lookup cannot tell the two apart.                         *)
(***************************************************************************)
Absent == [k |-> "absent", s |-> "", n |-> 0]
Str(s) == [k |-> "str", s |-> s, n |-> 0]
Num(n) == [k |-> "num", s |-> "", n |-> n]

\* json.Unmarshal(raw, &v) for a string v holding prev: a JSON string sets v,
\* null leaves v alone without error, anything else is an error and leaves v.
UnmarshalString(raw, prev) ==
    IF raw.k = "str" THEN [err |-> FALSE, val |-> raw.s]
    ELSE IF raw.k = "null" THEN [err |-> FALSE, val |-> prev]
    ELSE [err |-> TRUE, val |-> prev]

\* The gridPos raw value: absent, or an object with the four integers.
NoGridPos == [k |-> "absent", h |-> 0, w |-> 0, x |-> 0, y |-> 0]
GridPosObj(h, w, x, y) == [k |-> "obj", h |-> h, w |-> w, x |-> x, y |-> y]

\* The panels raw value: absent, or an array of panels.  Each element stands
\* for the map json.Unmarshal builds for it (decoded once, by
\* retrieveEmbeddedPanels).
NoPanels == [k |-> "absent", a |-> <<>>]
PanelsArr(a) == [k |-> "arr", a |-> a]

(***************************************************************************)
(* Panel accessors                                                         *)
(***************************************************************************)
Equals(p, p2) == p.title = p2.title /\ p.type = p2.type

\* Panel.GridPos: the decoded rectangle, the zero GridPos when the key is absent.
GridPos(p) ==
    IF p.gridPos.k = "absent"
    THEN [h |-> 0, w |-> 0, x |-> 0, y |-> 0]
    ELSE [h |-> p.gridPos.h, w |-> p.gridPos.w, x |-> p.gridPos.x, y |-> p.gridPos.y]

\* json.Marshal(GridPos)
MarshalGridPos(g) == GridPosObj(g.h, g.w, g.x, g.y)

retrieveEmbeddedPanels(p) == IF p.panels.k = "arr" THEN p.panels.a ELSE <<>>

(***************************************************************************)
(* Go maps keyed by group name                                             *)
(***************************************************************************)
EmptyMap == [x \in {} |-> <<>>]
Has(m, key) == key \in DOMAIN m
\* m[key], the nil slice when the key is missing
Get(m, key) == IF key \in DOMAIN m THEN m[key] ELSE <<>>
Put(m, key, v) == [x \in (DOMAIN m) \cup {key} |-> IF x = key THEN v ELSE m[x]]

(***************************************************************************)
(* MergePanels                                                             *)
(***************************************************************************)
RECURSIVE InitialMaxY(_, _, _, _)
\* the first loop: maxY over ps[i..]
InitialMaxY(h, ps, i, m) ==
    IF i > Len(ps) THEN m
    ELSE LET gp == GridPos(h[ps[i]])
         IN InitialMaxY(h, ps, i + 1, IF gp.y + gp.h > m THEN gp.y + gp.h ELSE m)

\* the body of "if res[i].Equals(p2)": p2 takes the slot's gridPos and id
Overwrite(h, slot, p2) ==
    [h EXCEPT ![p2].gridPos = h[slot].gridPos, ![p2].id = h[slot].id]

RECURSIVE ScanMatches(_, _, _, _, _)
\* "for i := range res": st = [heap, res, matched]
ScanMatches(h, r, p2, i, matched) ==
    IF i > Len(r) THEN [heap |-> h, res |-> r, matched |-> matched]
    ELSE IF Equals(h[r[i]], h[p2])
         THEN ScanMatches(Overwrite(h, r[i], p2), [r EXCEPT ![i] = p2], p2, i + 1, TRUE)
         ELSE ScanMatches(h, r, p2, i + 1, matched)

\* the rectangle given to an unmatched panel
DefaultPosNoGap(my) == [h |-> 2, w |-> 6, x |-> 0, y |-> my]
DefaultPos(my) == [h |-> 2, w |-> 6, x |-> 0, y |-> my + 1]

\* one iteration of "for len(ps2) > 0" on p2; st = [heap, res, maxY]
MergeOne(st, p2) ==
    LET sc == ScanMatches(st.heap, st.res, p2, 1, FALSE)
    IN IF sc.matched
       THEN [heap |-> sc.heap, res |-> sc.res, maxY |-> st.maxY]
       ELSE LET g == DefaultPos(st.maxY)
            IN [heap |-> [sc.heap EXCEPT ![p2].gridPos = MarshalGridPos(g)],
                res |-> Append(sc.res, p2),
                maxY |-> st.maxY + g.h]

RECURSIVE MergeLoop(_, _, _)
MergeLoop(st, q, i) ==
    IF i > Len(q) THEN st ELSE MergeLoop(MergeOne(st, q[i]), q, i + 1)

\* MergePanels(a, b) on heap h: the new heap and the result slice
MergePanels(h, a, b) ==
    MergeLoop([heap |-> h, res |-> a, maxY |-> InitialMaxY(h, a, 1, 0)], b, 1)

(***************************************************************************)
(* groupByRow                                                              *)
(***************************************************************************)
\* The group a row marker opens: its title when that decodes without error,
\* otherwise the group that was current.
RowGroupName(p, groupName) ==
    IF p.title.k # "absent" /\ ~UnmarshalString(p.title, "").err
    THEN UnmarshalString(p.title, "").val
    ELSE groupName

RECURSIVE GroupLoop(_, _, _, _, _, _)
GroupLoop(h, ps, i, groupName, groups, rows) ==
    IF i > Len(ps) THEN [heap |-> h, groups |-> groups, rows |-> rows]
    ELSE LET a == ps[i]
             p == h[a]
             ut == UnmarshalString(p.type, "")
         IN IF p.type.k = "absent" \/ ut.err
            THEN GroupLoop(h, ps, i + 1, groupName, groups, rows)
            ELSE IF ut.val = "row"
            THEN LET name == RowGroupName(p, groupName)
                 IN GroupLoop(
                        [h EXCEPT ![a].panels = PanelsArr(<<>>), ![a].collapsed = "false"],
                        ps, i + 1, name,
                        Put(groups, name, Get(groups, name) \o retrieveEmbeddedPanels(p)),
                        Put(rows, name, a))
            ELSE GroupLoop(h, ps, i + 1, groupName,
                           Put(groups, groupName, Append(Get(groups, groupName), a)),
                           rows)

groupByRow(h, ps) == GroupLoop(h, ps, 1, "none", EmptyMap, EmptyMap)

(***************************************************************************)
(* MergePanelsByGroup, step by step                                        *)
(***************************************************************************)
\* "merge child panels per group".  The two range loops visit the names in
\* an unspecified order; each iteration writes only mergedGroups[name] and
\* the maps of groupsPs2[name], and no map is in two groups, so the order
\* cannot show in the result and the names are folded in any one order.
RECURSIVE MergeGroupsLoop(_, _, _, _, _)
MergeGroupsLoop(h, names, g1, g2, mg) ==
    IF names = {} THEN [heap |-> h, merged |-> mg]
    ELSE LET name == CHOOSE x \in names : TRUE
         IN IF Has(g1, name) /\ Has(g2, name)
            THEN LET m == MergePanels(h, g1[name], g2[name])
                 IN MergeGroupsLoop(m.heap, names \ {name}, g1, g2, Put(mg, name, m.res))
            ELSE MergeGroupsLoop(h, names \ {name}, g1, g2,
                                 Put(mg, name, IF Has(g1, name) THEN g1[name] ELSE g2[name]))

RECURSIVE AllPanels(_, _)
\* the panels of all the groups of g, one group after the other
AllPanels(g, names) ==
    IF names = {} THEN <<>>
    ELSE LET t == CHOOSE x \in names : TRUE
         IN g[t] \o AllPanels(g, names \ {t})

\* a merge that matches each group of ps1 against every panel of ps2
MergeGroupsAcross(h, g1, g2) ==
    MergeGroupsLoop(h, (DOMAIN g1) \cup (DOMAIN g2), g1,
                    [t \in (DOMAIN g1) \cup (DOMAIN g2) |-> AllPanels(g2, DOMAIN g2)],
                    EmptyMap)

MergeGroupsOf(h, g1, g2) ==
    MergeGroupsLoop(h, (DOMAIN g1) \cup (DOMAIN g2), g1, g2, EmptyMap)

\* "check what rows belong only to ps2"
OnlyPs2(r1, r2) == (DOMAIN r2) \ (DOMAIN r1)

\* every order in which a range loop may visit the keys S
Orders(S) ==
    {f \in [1..Cardinality(S) -> S] : \A i, j \in 1..Cardinality(S) : f[i] = f[j] => i = j}

RECURSIVE NewGroupsBlock(_, _, _, _)
\* "append groups that were only in ps2", the new names visited in order ord
NewGroupsBlock(ord, i, r2, mg) ==
    IF i > Len(ord) THEN <<>>
    ELSE <<r2[ord[i]]>> \o Get(mg, ord[i]) \o NewGroupsBlock(ord, i + 1, r2, mg)

\* the title the header walk gives a row marker
WalkTitle(p) ==
    IF p.title.k # "absent" THEN UnmarshalString(p.title, "").val ELSE "none"

\* whether a loop over panels treats p as a row marker (type decodes to "row")
IsRow(p) ==
    /\ p.type.k # "absent"
    /\ ~UnmarshalString(p.type, "").err
    /\ UnmarshalString(p.type, "").val = "row"

\* "append header (prefer ps1 header)"
HeaderFor(title, a, r1, r2) ==
    IF Has(r1, title) THEN r1[title]
    ELSE IF Has(r2, title) THEN r2[title]
    ELSE a

RECURSIVE WalkLoop(_, _, _, _, _, _, _, _)
\* "preserve order of row headers from ps1"
WalkLoop(h, ps, i, r1, r2, mg, t2, sn) ==
    IF i > Len(ps) THEN [tmp2 |-> t2, seen |-> sn]
    ELSE IF ~IsRow(h[ps[i]]) THEN WalkLoop(h, ps, i + 1, r1, r2, mg, t2, sn)
    ELSE LET title == WalkTitle(h[ps[i]])
             withHeader == Append(t2, HeaderFor(title, ps[i], r1, r2))
         IN IF title \in sn
            THEN WalkLoop(h, ps, i + 1, r1, r2, mg, withHeader, sn)
            ELSE WalkLoop(h, ps, i + 1, r1, r2, mg,
                          withHeader \o Get(mg, title), sn \cup {title})

maxWidth == 24

RECURSIVE RepackLoop(_, _, _, _, _, _)
\* "make the grid positions consistent"
RepackLoop(h, r, i, currentY, currentRowWidth, currentRowMaxBottom) ==
    IF i > Len(r) THEN h
    ELSE LET pos == GridPos(h[r[i]])
             wrap == currentRowWidth + pos.w > maxWidth
             cy == IF wrap THEN currentY + currentRowMaxBottom ELSE currentY
             cw == IF wrap THEN 0 ELSE currentRowWidth
             cb == IF wrap THEN 0 ELSE currentRowMaxBottom
             placed == [pos EXCEPT !.x = cw, !.y = cy]
         IN RepackLoop([h EXCEPT ![r[i]].gridPos = MarshalGridPos(placed)],
                       r, i + 1, cy, cw + pos.w,
                       IF pos.h > cb THEN pos.h ELSE cb)

(***************************************************************************)
(* Inputs.  A panel's "extra" stands for all the fields fusion.go never    *)
(* names; it is set to the panel's own address, as is its id, so that the  *)
(* origin of a result panel's content and of its id can be read off.       *)
(***************************************************************************)
Panel(a, title, type, gridPos, panels, collapsed) ==
    [id |-> Num(a), title |-> title, type |-> type, gridPos |-> gridPos,
     extra |-> a, panels |-> panels, collapsed |-> collapsed]

\* the panel kinds of the dashboards given to MergePanelsByGroup
Kinds1 ==
    {"cpu", "untyped", "rowA", "rowAfull", "rowB", "rowNoTitle", "rowNumTitle"}
\* the panel kinds of the panels merged into them
Kinds2 == {"cpu", "rowA", "rowAfull", "rowB", "rowNoTitle"}

\* the address of the panel nested in the row marker at address a
NestedOf(a) == a + MaxTotal

\* a panel of kind kd at address a; the base dashboard (side 1) carries a
\* layout, the panels to merge in (side 2) carry none
KindPanel(kd, a, side) ==
    LET content == IF side = 1 THEN GridPosObj(8, 12, 0, 0) ELSE NoGridPos
        row == GridPosObj(1, 24, 0, 0)
    IN CASE kd = "cpu" ->
              Panel(a, Str("cpu"), Str("graph"), content, NoPanels, "absent")
         [] kd = "untyped" ->
              Panel(a, Str("cpu"), Absent, content, NoPanels, "absent")
         [] kd = "rowA" ->
              Panel(a, Str("A"), Str("row"), row, NoPanels, "absent")
         [] kd = "rowAfull" ->
              Panel(a, Str("A"), Str("row"), row, PanelsArr(<<NestedOf(a)>>), "true")
         [] kd = "rowB" ->
              Panel(a, Str("B"), Str("row"), row, PanelsArr(<<>>), "false")
         [] kd = "rowNoTitle" ->
              Panel(a, Absent, Str("row"), row, NoPanels, "absent")
         [] kd = "rowNumTitle" ->
              Panel(a, Num(7), Str("row"), row, NoPanels, "absent")

\* the panel nested in a collapsed row marker
NestedPanel(a) ==
    Panel(a, Str("cpu"), Str("graph"), GridPosObj(4, 8, 0, 1), NoPanels, "absent")

\* the heap holding ps1 of kinds k1 at 1..Len(k1), ps2 of kinds k2 after it
HeapOf(k1, k2) ==
    LET n1 == Len(k1)
        n == n1 + Len(k2)
        kindAt(a) == IF a <= n1 THEN k1[a] ELSE k2[a - n1]
        nested == {NestedOf(a) : a \in {b \in 1..n : kindAt(b) = "rowAfull"}}
    IN [a \in (1..n) \cup nested |->
          IF a \in 1..n
          THEN KindPanel(kindAt(a), a, IF a <= n1 THEN 1 ELSE 2)
          ELSE NestedPanel(a)]

Range(lo, hi) == [i \in 1..(hi - lo + 1) |-> lo + i - 1]

Idle ==
    /\ groupsPs1 = EmptyMap /\ rowsPs1 = EmptyMap
    /\ groupsPs2 = EmptyMap /\ rowsPs2 = EmptyMap
    /\ mergedGroups = EmptyMap
    /\ tmp1 = <<>> /\ tmp2 = <<>> /\ seen = {}
    /\ res = <<>> /\ rest = <<>> /\ maxY = 0

Init ==
    /\ \E n1 \in 0..MaxTotal : \E n2 \in 0..(MaxTotal - n1) :
       \E k1 \in [1..n1 -> Kinds1] : \E k2 \in [1..n2 -> Kinds2] :
          /\ heap = HeapOf(k1, k2)
          /\ ps1 = Range(1, n1)
          /\ ps2 = Range(n1 + 1, n1 + n2)
    /\ heap0 = heap
    /\ top \in BOOLEAN
    /\ pc = "start"
    /\ Idle

\* groupsPs1, rowsPs1 := groupByRow(ps1); groupsPs2, rowsPs2 := groupByRow(ps2)
Group ==
    /\ pc = "start"
    /\ LET g1 == groupByRow(heap, ps1)
           g2 == groupByRow(g1.heap, ps2)
       IN /\ heap' = g2.heap
          /\ groupsPs1' = g1.groups /\ rowsPs1' = g1.rows
          /\ groupsPs2' = g2.groups /\ rowsPs2' = g2.rows
    /\ pc' = "grouped"
    /\ UNCHANGED <<heap0, ps1, ps2, top, mergedGroups, tmp1, tmp2, seen, res, rest, maxY>>

MergeGroups ==
    /\ pc = "grouped"
    /\ LET m == MergeGroupsOf(heap, groupsPs1, groupsPs2)
       IN heap' = m.heap /\ mergedGroups' = m.merged
    /\ pc' = "merged"
    /\ UNCHANGED <<heap0, ps1, ps2, top, groupsPs1, rowsPs1, groupsPs2, rowsPs2,
                   tmp1, tmp2, seen, res, rest, maxY>>

\* The range over mergedGroups visits the names in an order Go leaves
\* unspecified (and varies from run to run): any order may be the one taken.
AppendNew ==
    /\ pc = "merged"
    /\ \E ord \in Orders(OnlyPs2(rowsPs1, rowsPs2)) :
          tmp1' = NewGroupsBlock(ord, 1, rowsPs2, mergedGroups)
    /\ seen' = OnlyPs2(rowsPs1, rowsPs2)
    /\ pc' = "new"
    /\ UNCHANGED <<heap, heap0, ps1, ps2, top, groupsPs1, rowsPs1, groupsPs2, rowsPs2,
                   mergedGroups, tmp2, res, rest, maxY>>

Walk ==
    /\ pc = "new"
    /\ LET w == WalkLoop(heap, ps1, 1, rowsPs1, rowsPs2, mergedGroups, <<>>, seen)
       IN tmp2' = w.tmp2 /\ seen' = w.seen
    /\ pc' = "walked"
    /\ UNCHANGED <<heap, heap0, ps1, ps2, top, groupsPs1, rowsPs1, groupsPs2, rowsPs2,
                   mergedGroups, tmp1, res, rest, maxY>>

Assemble ==
    /\ pc = "walked"
    /\ res' = Get(mergedGroups, "none") \o
              (IF top THEN tmp1 \o tmp2 ELSE tmp2 \o tmp1)
    /\ pc' = "assembled"
    /\ UNCHANGED <<heap, heap0, ps1, ps2, top, groupsPs1, rowsPs1, groupsPs2, rowsPs2,
                   mergedGroups, tmp1, tmp2, seen, rest, maxY>>

Repack ==
    /\ pc = "assembled"
    /\ heap' = RepackLoop(heap, res, 1, 0, 0, 0)
    /\ pc' = "done"
    /\ UNCHANGED <<heap0, ps1, ps2, top, groupsPs1, rowsPs1, groupsPs2, rowsPs2,
                   mergedGroups, tmp1, tmp2, seen, res, rest, maxY>>

Next == Group \/ MergeGroups \/ AppendNew \/ Walk \/ Assemble \/ Repack

Spec == Init /\ [][Next]_vars

(***************************************************************************)
(* MergePanels called on its own                                           *)
(***************************************************************************)
MergeKinds == {"cpu", "mem", "cpuTable", "noTitle"}

KindHeight(kd) ==
    CASE kd = "cpu" -> 8 [] kd = "mem" -> 4 [] kd = "cpuTable" -> 2 [] kd = "noTitle" -> 1

\* base panels are stacked three grid rows apart; incoming panels have no layout
MergeKindPanel(kd, a, side, i) ==
    LET gp == IF side = 1 THEN GridPosObj(KindHeight(kd), 12, 0, 3 * (i - 1)) ELSE NoGridPos
    IN CASE kd = "cpu" -> Panel(a, Str("cpu"), Str("graph"), gp, NoPanels, "absent")
         [] kd = "mem" -> Panel(a, Str("mem"), Str("graph"), gp, NoPanels, "absent")
         [] kd = "cpuTable" -> Panel(a, Str("cpu"), Str("table"), gp, NoPanels, "absent")
         [] kd = "noTitle" -> Panel(a, Absent, Str("graph"), gp, NoPanels, "absent")

InitMerge ==
    /\ \E n1 \in 0..MaxMerge : \E n2 \in 0..MaxMerge :
       \E k1 \in [1..n1 -> MergeKinds] : \E k2 \in [1..n2 -> MergeKinds] :
          /\ heap = [a \in 1..(n1 + n2) |->
                        IF a <= n1 THEN MergeKindPanel(k1[a], a, 1, a)
                        ELSE MergeKindPanel(k2[a - n1], a, 2, a - n1)]
          /\ ps1 = Range(1, n1)
          /\ ps2 = Range(n1 + 1, n1 + n2)
    /\ heap0 = heap
    /\ top = FALSE
    /\ pc = "mp_start"
    /\ Idle

\* the first loop of MergePanels
MPCopy ==
    /\ pc = "mp_start"
    /\ res' = ps1
    /\ maxY' = InitialMaxY(heap, ps1, 1, 0)
    /\ rest' = ps2
    /\ pc' = "mp_loop"
    /\ UNCHANGED <<heap, heap0, ps1, ps2, top, groupsPs1, rowsPs1, groupsPs2, rowsPs2,
                   mergedGroups, tmp1, tmp2, seen>>

\* one iteration of "for len(ps2) > 0"
MPStep ==
    /\ pc = "mp_loop"
    /\ rest # <<>>
    /\ LET st == MergeOne([heap |-> heap, res |-> res, maxY |-> maxY], Head(rest))
       IN heap' = st.heap /\ res' = st.res /\ maxY' = st.maxY
    /\ rest' = Tail(rest)
    /\ UNCHANGED <<heap0, ps1, ps2, top, pc, groupsPs1, rowsPs1, groupsPs2, rowsPs2,
                   mergedGroups, tmp1, tmp2, seen>>

\* "return res"
MPReturn ==
    /\ pc = "mp_loop"
    /\ rest = <<>>
    /\ pc' = "mp_done"
    /\ UNCHANGED <<heap, heap0, ps1, ps2, top, groupsPs1, rowsPs1, groupsPs2, rowsPs2,
                   mergedGroups, tmp1, tmp2, seen, res, rest, maxY>>

NextMerge == MPCopy \/ MPStep \/ MPReturn

SpecMerge == InitMerge /\ [][NextMerge]_vars

(***************************************************************************)
(* Properties of MergePanels (SpecMerge)                                   *)
(***************************************************************************)
Max(S) == CHOOSE m \in S : \A x \in S : x <= m

\* every field of panel p but id and gridPos
Content(p) ==
    [title |-> p.title, type |-> p.type, extra |-> p.extra,
     panels |-> p.panels, collapsed |-> p.collapsed]

\* the indices of the incoming panels that match base panel i, as passed in
MatchesOf(i) == {j \in 1..Len(ps2) : Equals(heap0[ps1[i]], heap0[ps2[j]])}

\* C1 as claimed: after MergePanels every base slot that some incoming panel
\* matches holds the content of the last such incoming panel, with the id and
\* gridPos that this very slot had in the base.
C1_MatchKeepsOwnIdAndGridPos ==
    pc = "mp_done" =>
        \A i \in 1..Len(ps1) :
            MatchesOf(i) # {} =>
                LET q == heap0[ps2[Max(MatchesOf(i))]]
                    p == heap0[ps1[i]]
                IN /\ Content(heap[res[i]]) = Content(q)
                   /\ heap[res[i]].id = p.id
                   /\ heap[res[i]].gridPos = p.gridPos

\* M of C3: the largest y+h of the base panels as passed in, 0 for no panels
BaseBottom ==
    IF ps1 = <<>> THEN 0
    ELSE Max({GridPos(heap0[ps1[i]]).y + GridPos(heap0[ps1[i]]).h : i \in 1..Len(ps1)} \cup {0})

\* incoming panel j finds no match at its turn: no base panel and no earlier
\* incoming panel has its title and type
IsAppended(j) ==
    /\ \A i \in 1..Len(ps1) : ~Equals(heap0[ps1[i]], heap0[ps2[j]])
    /\ \A j2 \in 1..(j - 1) : ~Equals(heap0[ps2[j2]], heap0[ps2[j]])

\* the unmatched incoming panels, in order
AppendedPanels == SelectSeq(ps2, LAMBDA a : IsAppended(a - Len(ps1)))

\* C3: the base panels keep slots 1..Len(ps1) in order (a slot holds the base
\* panel itself when nothing matched it, and always a panel of its title and
\* type); the unmatched incoming panels follow in order, the k-th of them
\* (k = 0, 1, ...) at {x: 0, y: M + 1 + 2k, w: 6, h: 2}.
C3_AppendAfterBaseWithRunningY ==
    pc = "mp_done" =>
        /\ Len(res) = Len(ps1) + Len(AppendedPanels)
        /\ \A i \in 1..Len(ps1) :
              /\ Equals(heap[res[i]], heap0[ps1[i]])
              /\ MatchesOf(i) = {} => res[i] = ps1[i] /\ heap[res[i]] = heap0[ps1[i]]
        /\ \A k \in 1..Len(AppendedPanels) :
              /\ Equals(heap[res[Len(ps1) + k]], heap0[AppendedPanels[k]])
              /\ heap[res[Len(ps1) + k]].gridPos =
                     GridPosObj(2, 6, 0, BaseBottom + 1 + 2 * (k - 1))

\* a merge that matched a base panel and appended at least two panels, after a
\* base whose tallest bottom is not the last panel's
C3_Witness ==
    /\ pc = "mp_done"
    /\ Len(AppendedPanels) >= 2
    /\ Len(ps1) >= 2
    /\ \E i \in 1..Len(ps1) : MatchesOf(i) # {}
    /\ BaseBottom > GridPos(heap0[ps1[Len(ps1)]]).y + GridPos(heap0[ps1[Len(ps1)]]).h

(***************************************************************************)
(* Properties of MergePanelsByGroup (Spec)                                 *)
(***************************************************************************)
AfterMerge == pc \in {"merged", "new", "walked", "assembled", "done"}
AfterWalk == pc \in {"walked", "assembled", "done"}
AfterAssemble == pc \in {"assembled", "done"}

RECURSIVE NameAfter(_, _, _)
\* the group that is current in groupByRow once ps[1..i] has been read
NameAfter(h, ps, i) ==
    IF i = 0 THEN "none"
    ELSE IF IsRow(h[ps[i]]) THEN RowGroupName(h[ps[i]], NameAfter(h, ps, i - 1))
    ELSE NameAfter(h, ps, i - 1)

Elems(q) == {q[i] : i \in 1..Len(q)}

\* the positions of q that hold a row marker
HeaderPositions(q) == {k \in 1..Len(q) : IsRow(heap[q[k]])}

\* panel p, as passed in, is in the output with the same id and fields, its
\* gridPos rewritten in x and y at most
Surfaces(p) ==
    \E k \in 1..Len(res) :
        /\ Content(heap[res[k]]) = Content(p)
        /\ heap[res[k]].id = p.id
        /\ GridPos(heap[res[k]]).w = GridPos(p).w
        /\ GridPos(heap[res[k]]).h = GridPos(p).h

\* no panel of ps1[i]'s group in ps2 has its title and type
UnmatchedInGroup(i) ==
    \A b \in Elems(Get(groupsPs2, NameAfter(heap0, ps1, i))) :
        ~Equals(heap0[b], heap0[ps1[i]])

\* C2 as claimed, for the panels of ps1 that are not row markers (a row
\* marker's panels and collapsed fields are rewritten by groupByRow): each one
\* without a match in its group of ps2 is in the output, id and fields intact.
C2_UnmatchedBasePanelSurfaces ==
    pc = "done" =>
        \A i \in 1..Len(ps1) :
            (~IsRow(heap0[ps1[i]]) /\ UnmatchedInGroup(i)) => Surfaces(heap0[ps1[i]])

\* C4: MergePanels runs only on the two content lists of one group name.  A
\* panel of ps2 never takes the id of a panel of a differently named group of
\* ps1, and a slot of a ps1 group that nothing in the same-named ps2 group
\* matches still holds the ps1 panel.
C4_MatchingIsScopedToGroup ==
    AfterMerge =>
        /\ \A A \in DOMAIN groupsPs1 : \A B \in (DOMAIN groupsPs2) \ {A} :
           \A a \in Elems(groupsPs1[A]) : \A b \in Elems(groupsPs2[B]) :
               heap[b].id # heap0[a].id
        /\ \A A \in DOMAIN groupsPs1 : \A i \in 1..Len(groupsPs1[A]) :
               (\A b \in Elems(Get(groupsPs2, A)) :
                    ~Equals(heap0[b], heap0[groupsPs1[A][i]]))
               => /\ mergedGroups[A][i] = groupsPs1[A][i]
                  /\ heap[groupsPs1[A][i]].id = heap0[groupsPs1[A][i]].id
                  /\ heap[groupsPs1[A][i]].extra = heap0[groupsPs1[A][i]].extra

\* a finished merge where a panel of group A of ps1 has a title+type twin in a
\* differently named group of ps2, group A was itself merged with ps2's group
\* A, and both panels are in the output
C4_Witness ==
    /\ pc = "done"
    /\ \E A \in DOMAIN groupsPs1 : \E B \in (DOMAIN groupsPs2) \ {A} :
       \E a \in Elems(groupsPs1[A]) : \E b \in Elems(groupsPs2[B]) :
           /\ Equals(heap0[a], heap0[b])
           /\ Has(groupsPs2, A)
           /\ a \in Elems(res) /\ b \in Elems(res)

\* the panels of the groups whose row is only in ps2, and of those with a row in ps1
NewGroupPanels ==
    UNION {{rowsPs2[t]} \cup Elems(Get(mergedGroups, t)) : t \in OnlyPs2(rowsPs1, rowsPs2)}
ExistingGroupPanels ==
    UNION {{rowsPs1[t]} \cup Elems(Get(mergedGroups, t)) : t \in DOMAIN rowsPs1}

\* C5 as claimed: the output starts with the merged group "none"; behind it,
\* with top unset no panel of a new group precedes a panel of an existing
\* group, and with top set none follows one.
C5_NewGroupsAfterOrBeforeExisting ==
    AfterAssemble =>
        LET n0 == Len(Get(mergedGroups, "none"))
        IN /\ SubSeq(res, 1, n0) = Get(mergedGroups, "none")
           /\ \A i, j \in (n0 + 1)..Len(res) :
                 i < j =>
                    IF top
                    THEN ~(res[i] \in ExistingGroupPanels /\ res[j] \in NewGroupPanels)
                    ELSE ~(res[i] \in NewGroupPanels /\ res[j] \in ExistingGroupPanels)

\* the rectangle of output position k
Rect(k) == GridPos(heap[res[k]])

RECURSIVE Shelf(_, _)
\* Shelf packing of the widths and heights of q[1..k], as C6 describes it:
\* the x and y of q[k], and the width and tallest height of its shelf so far.
Shelf(q, k) ==
    IF k = 0 THEN [x |-> 0, y |-> 0, width |-> 0, tallest |-> 0]
    ELSE LET prev == Shelf(q, k - 1)
             g == GridPos(heap[q[k]])
         IN IF prev.width + g.w > maxWidth
            THEN [x |-> 0, y |-> prev.y + prev.tallest, width |-> g.w, tallest |-> g.h]
            ELSE [x |-> prev.width, y |-> prev.y, width |-> prev.width + g.w,
                  tallest |-> IF g.h > prev.tallest THEN g.h ELSE prev.tallest]

Overlap(r1, r2) ==
    /\ r1.x < r2.x + r2.w /\ r2.x < r1.x + r1.w
    /\ r1.y < r2.y + r2.h /\ r2.y < r1.y + r1.h

\* C6 as claimed: after repacking, every output position has the x and y of
\* the shelf packing of the output's widths and heights, no shelf is wider
\* than 24, and no two positions of positive area overlap.
C6_RepackIsShelfPacking ==
    pc = "done" =>
        /\ \A k \in 1..Len(res) :
              /\ Rect(k).x = Shelf(res, k).x
              /\ Rect(k).y = Shelf(res, k).y
              /\ Shelf(res, k).width <= maxWidth
        /\ \A i, j \in 1..Len(res) :
              (i < j /\ Rect(i).w > 0 /\ Rect(i).h > 0 /\ Rect(j).w > 0 /\ Rect(j).h > 0)
              => ~Overlap(Rect(i), Rect(j))

\* the index of the first row marker of ps2 that opens group t
FirstRowOf(t) ==
    CHOOSE i \in 1..Len(ps2) :
        /\ IsRow(heap0[ps2[i]]) /\ NameAfter(heap0, ps2, i) = t
        /\ \A j \in 1..(i - 1) : ~(IsRow(heap0[ps2[j]]) /\ NameAfter(heap0, ps2, j) = t)

\* the new group names in the order of their first row marker in ps2
FirstAppearanceOrder ==
    CHOOSE ord \in Orders(OnlyPs2(rowsPs1, rowsPs2)) :
        \A i, j \in 1..Len(ord) : i < j => FirstRowOf(ord[i]) < FirstRowOf(ord[j])

\* C7 as claimed: the output is a function of ps1, ps2 and top; the new groups
\* come in the order of their first appearance in ps2.
C7_OutputIsDeterministic ==
    AfterAssemble =>
        LET block == NewGroupsBlock(FirstAppearanceOrder, 1, rowsPs2, mergedGroups)
        IN res = Get(mergedGroups, "none") \o
                 (IF top THEN block \o tmp2 ELSE tmp2 \o block)

\* the titles the header walk reads off the row markers of ps1
WalkTitles == {WalkTitle(heap0[ps1[i]]) : i \in {k \in 1..Len(ps1) : IsRow(heap0[ps1[k]])}}

\* C8 as claimed: the existing-groups block holds one header per row title of
\* ps1, and no content panel twice.
C8_OneHeaderPerTitle ==
    AfterWalk =>
        /\ Cardinality(HeaderPositions(tmp2)) <= Cardinality(WalkTitles)
        /\ \A i, j \in 1..Len(tmp2) :
              (i # j /\ ~IsRow(heap[tmp2[i]])) => tmp2[i] # tmp2[j]

\* the title of a row marker is not a JSON string
UntitledRow(p) == IsRow(p) /\ p.title.k # "str"

\* C9 as claimed, on groupByRow(ps1): a row marker whose title is absent or
\* unreadable opens group "none": it is recorded as rows["none"] (unless a
\* later marker of group "none" replaces it) and the content panels between it
\* and the next row marker are in groups["none"].
C9_UntitledRowOpensNone ==
    pc # "start" =>
        \A i \in 1..Len(ps1) :
            UntitledRow(heap0[ps1[i]]) =>
                /\ Has(rowsPs1, "none")
                /\ (\A j \in (i + 1)..Len(ps1) : ~UntitledRow(heap0[ps1[j]])
                        /\ ~(IsRow(heap0[ps1[j]]) /\ heap0[ps1[j]].title = Str("none")))
                    => rowsPs1["none"] = ps1[i]
                /\ \A j \in (i + 1)..Len(ps1) :
                      (/\ heap0[ps1[j]].type.k = "str" /\ ~IsRow(heap0[ps1[j]])
                       /\ \A m \in (i + 1)..j : ~IsRow(heap0[ps1[m]]))
                      => ps1[j] \in Elems(Get(groupsPs1, "none"))

RECURSIVE SumLen(_, _)
SumLen(m, names) ==
    IF names = {} THEN 0
    ELSE LET t == CHOOSE x \in names : TRUE
         IN Len(m[t]) + SumLen(m, names \ {t})

\* C10 as claimed: the output holds the emitted row headers and each panel of
\* each merged group once.
C10_EveryGroupPanelOnce ==
    AfterAssemble =>
        Len(res) = Cardinality(HeaderPositions(res)) + SumLen(mergedGroups, DOMAIN mergedGroups)

(***************************************************************************)
(* Supporting checks: where the statements above fail, the same statements *)
(* hold once the inputs that trigger the failure are set aside.            *)
(***************************************************************************)
\* C1 for a base slot whose title and type no other base slot shares
C1_SingleMatchKeepsIdAndGridPos ==
    pc = "mp_done" =>
        \A i \in 1..Len(ps1) :
            (/\ MatchesOf(i) # {}
             /\ \A i2 \in 1..Len(ps1) : i2 # i => ~Equals(heap0[ps1[i]], heap0[ps1[i2]]))
            => LET q == heap0[ps2[Max(MatchesOf(i))]]
                   p == heap0[ps1[i]]
               IN /\ Content(heap[res[i]]) = Content(q)
                  /\ heap[res[i]].id = p.id
                  /\ heap[res[i]].gridPos = p.gridPos

\* C2 for the content panels of ps1 whose type is a JSON string
C2_TypedBasePanelSurfaces ==
    pc = "done" =>
        \A i \in 1..Len(ps1) :
            (/\ ~IsRow(heap0[ps1[i]]) /\ heap0[ps1[i]].type.k = "str"
             /\ UnmatchedInGroup(i))
            => Surfaces(heap0[ps1[i]])

\* C5 when every row marker of ps1 has a JSON string as its title
C5_TitledRowsKeepBlocksApart ==
    (\A i \in 1..Len(ps1) : ~UntitledRow(heap0[ps1[i]]))
    => C5_NewGroupsAfterOrBeforeExisting

\* C6 when no map is at two positions of the output
C6_DistinctPanelsAreShelfPacked ==
    (\A i, j \in 1..Len(res) : res[i] = res[j] => i = j)
    => C6_RepackIsShelfPacking

====
